---- MODULE Spec2Model ----
(***************************************************************************)
(* Tabular Q-learning (QTableModel) and Q-learning with an eligibility     *)
(* trace (QTableTraceModel): the train loop, q and predict.                *)
(*                                                                         *)
(* Reals (Q-values, rates, hyperparameters) are exact rationals <<n, d>>   *)
(* with d > 0 in lowest terms.  The environment is an external             *)
(* collaborator: a two-cell maze whose step result (game goes on or is     *)
(* won) and whose check_win_all result are chosen nondeterministically.    *)
(* A model instance makes at most MaxCalls train calls and MaxTotalSteps   *)
(* environment steps in all; the environment ends an episode with LOSE     *)
(* when the steps left are needed for the episodes still to come.          *)
(***************************************************************************)
EXTENDS Integers, Sequences, FiniteSets

\* ------------------------------------------------------------------ bounds
MaxEpisodes == 3
MaxTotalSteps == 3
MaxCalls == 2

\* ------------------------------------------------------- exact rationals
\* An operand is taken as the bound variable of a one-element set, which
\* gives it its value once, however often the body uses it.
Abs(x) == IF x < 0 THEN -x ELSE x

RECURSIVE GCD(_, _)
GCD(a, b) ==
    CHOOSE g \in {IF p[2] = 0 THEN p[1] ELSE GCD(p[2], p[1] % p[2]) :
                    p \in {<<a, b>>}} : TRUE

Norm(n, d) ==
    CHOOSE r \in {<<p[1] \div p[3], p[2] \div p[3]>> :
                    p \in {<<q[1], q[2], GCD(Abs(q[1]), q[2])>> :
                            q \in {<<n, d>>}}} : TRUE

R(n) == <<n, 1>>
Half == <<1, 2>>
RAdd(x, y) ==
    CHOOSE r \in {Norm(p[1][1] * (p[2][2] \div p[3])
                            + p[2][1] * (p[1][2] \div p[3]),
                        (p[1][2] \div p[3]) * p[2][2]) :
                    p \in {<<q[1], q[2], GCD(q[1][2], q[2][2])>> :
                            q \in {<<x, y>>}}} : TRUE
RNeg(x) == <<-x[1], x[2]>>
RSub(x, y) == RAdd(x, RNeg(y))
RMul(x, y) ==
    CHOOSE r \in {<<p[1][1] * p[2][1], p[1][2] * p[2][2]>> :
                    p \in {<<Norm(q[1][1], q[2][2]), Norm(q[2][1], q[1][2])>> :
                            q \in {<<x, y>>}}} : TRUE
RLt(x, y) ==
    LET g == GCD(x[2], y[2])
    IN  x[1] * (y[2] \div g) < y[1] * (x[2] \div g)
RLe(x, y) ==
    LET g == GCD(x[2], y[2])
    IN  x[1] * (y[2] \div g) <= y[1] * (x[2] \div g)

RECURSIVE RPow(_, _)
RPow(x, n) == IF n = 0 THEN R(1) ELSE RMul(x, RPow(x, n - 1))

\* ------------------------------------------------------------ environment
\* environment.actions: a fixed ordered collection; the action tokens are
\* the integers 0..n-1 in order (an IntEnum in the environment).
actions == <<0, 1>>
ActionSet == {actions[i] : i \in 1..Len(actions)}

\* environment.empty: the valid start cells, pairwise distinct.
empty == <<0, 1>>

\* environment.reset(start_cell), flattened to a hashable state.
reset(cell) == cell

States == {reset(empty[i]) : i \in 1..Len(empty)}

Status == {"PLAYING", "WIN", "LOSE"}

\* The agent moves to the cell the action names (staying put when it is
\* already there).
move(s, a) == reset(empty[a + 1])

\* environment.step(action): the move; while the agent has moves left the
\* game goes on (a penalty) or is won (a prize), and its last move loses
\* (a penalty).
StepResults(s, a, moves_left) ==
    IF moves_left
    THEN {<<move(s, a), R(-1), "PLAYING">>, <<move(s, a), R(2), "WIN">>}
    ELSE {<<move(s, a), R(-1), "LOSE">>}

\* environment.check_win_all(model): (all start cells won, win rate); all
\* start cells are won exactly when the win rate is 1.
CheckWinAllResults == {<<FALSE, 0>>, <<TRUE, 1>>}

\* --------------------------------------------------------- call arguments
\* The keyword arguments a caller passes to train.
Discounts == {Half}
LearningRates == {Half}
ExplorationRates == {Half}
ExplorationDecays == {Half}
EligibilityDecays == {Half}
CheckEvery == {1, 2}

TrainInputs ==
    [stop_at_convergence : BOOLEAN,
     episodes : 0..MaxEpisodes,
     check_convergence_every : CheckEvery,
     discount : Discounts,
     exploration_rate : ExplorationRates,
     exploration_decay : ExplorationDecays,
     learning_rate : LearningRates,
     eligibility_decay : EligibilityDecays]

\* The same arguments with eligibility_decay = 0.
NoTraceInputs == {[k EXCEPT !.eligibility_decay = R(0)] : k \in TrainInputs}

\* ------------------------------------------------------------------ state
VARIABLES
    variant,                    \* the model class that was constructed
    Q,                          \* self.Q
    pc,                         \* position of the single thread of control
    kw,                         \* the arguments of the running train call
    episodes,                   \* train locals ...
    episode,
    exploration_rate,
    start_list,
    state,
    etrace,
    status,
    cumulative_reward,
    cumulative_reward_history,
    win_history,
    ret,                        \* what the last train call returned
    total_steps,                \* environment.step calls since construction
    calls,                      \* train calls since construction
    steps,                      \* environment.step calls of this episode
    renders,                    \* environment.render_q calls of this episode
    starts,                     \* start cells drawn by this train call
    visited,                    \* pairs chosen in this episode, in order
    episode_rewards,            \* per episode of this call, its steps' rewards
    trace_used,                 \* the trace as the last step's updates read it
    chosen,                     \* pairs chosen at some training step
    last,                       \* the last transition and the table before it
    rng                         \* the seeded random sources of a repeated run

vars ==
    <<variant, Q, pc, kw, episodes, episode, exploration_rate, start_list,
      state, etrace, status, cumulative_reward, cumulative_reward_history,
      win_history, ret, total_steps, calls, steps, renders, starts, visited,
      episode_rewards, trace_used, chosen, last, rng>>

NoCall ==
    [stop_at_convergence |-> FALSE, episodes |-> 1,
     check_convergence_every |-> 1, discount |-> Half,
     exploration_rate |-> R(0), exploration_decay |-> Half,
     learning_rate |-> Half, eligibility_decay |-> Half]

EmptyMap == [k \in {} |-> R(0)]

NoReturn ==
    [cumulative_reward_history |-> <<>>, win_history |-> <<>>, episode |-> 0]

NoStep ==
    [valid |-> FALSE, Q |-> EmptyMap, state |-> 0, action |-> 0,
     next_state |-> 0, reward |-> R(0), status |-> "PLAYING"]

\* No draw is waiting for the second run.
NoDraw == [kind |-> "none"]

\* A model as constructed, before its first train call.
Fresh ==
    [Q |-> EmptyMap, pc |-> "idle", kw |-> NoCall, episodes |-> 0,
     episode |-> 0, exploration_rate |-> R(0), start_list |-> <<>>,
     state |-> 0, etrace |-> EmptyMap, status |-> "PLAYING",
     cumulative_reward |-> R(0), cumulative_reward_history |-> <<>>,
     win_history |-> <<>>, ret |-> NoReturn, total_steps |-> 0, calls |-> 0,
     steps |-> 0, renders |-> 0, starts |-> <<>>, visited |-> <<>>,
     episode_rewards |-> <<>>, trace_used |-> EmptyMap, chosen |-> {},
     last |-> NoStep]

\* Two models as constructed, the first one's turn, nothing drawn.
NoDraws == [run |-> 1, drawn |-> NoDraw, other |-> Fresh]

\* ------------------------------------------------------ q and predict
Get(Qt, key) == IF key \in DOMAIN Qt THEN Qt[key] ELSE R(0)

RMax(seq) ==
    CHOOSE m \in {seq[i] : i \in 1..Len(seq)} :
        \A i \in 1..Len(seq) : RLe(seq[i], m)

\* q(state): the values of all actions, in the order of environment.actions.
q(Qt, s) == [i \in 1..Len(actions) |-> Get(Qt, <<s, actions[i]>>)]

\* A slip: np.argmax, the first index of the maximum.
predictFirst(Qt, s) ==
    LET qv == q(Qt, s)
        best == {j \in 1..Len(qv) : qv[j] = RMax(qv)}
    IN  {(CHOOSE j \in best : \A h \in best : j <= h) - 1}

\* predict(state): the 0-based indices at which q(state) equals its maximum;
\* random.choice returns any one of them.
predict(Qt, s) ==
    LET qv == q(Qt, s)
    IN  {i - 1 : i \in {j \in 1..Len(qv) : qv[j] = RMax(qv)}}

\* Epsilon-greedy choice: np.random.random() is in [0, 1).
ChooseAction(Qt, s, rate) ==
    (IF RLt(R(0), rate) THEN ActionSet ELSE {})
        \cup (IF RLt(rate, R(1)) THEN predict(Qt, s) ELSE {})

\* ------------------------------------------------------------ the update
\* A slip: the entry of a new pair is not created.
EnsureNothing(Qt, key) == Qt

\* "ensure value exists for (state, action)".
Ensure(Qt, key) ==
    IF key \in DOMAIN Qt THEN Qt
    ELSE [k \in DOMAIN Qt \cup {key} |-> IF k = key THEN R(0) ELSE Qt[k]]

max_next_Q(Qt, next_state) ==
    RMax([i \in 1..Len(actions) |-> Get(Qt, <<next_state, actions[i]>>)])

\* A slip: the bootstrap value is read from the current state.
QUpdateFromState(Qt, s, a, next_state, reward, lr, disc) ==
    LET Q0 == Ensure(Qt, <<s, a>>)
        m == max_next_Q(Q0, s)
    IN  [Q0 EXCEPT ![<<s, a>>] =
            RAdd(@, RMul(lr, RSub(RAdd(reward, RMul(disc, m)), @)))]

\* A slip: the next state's entries are read with setdefault, which
\* inserts the missing ones.
QUpdateSetDefault(Qt, s, a, next_state, reward, lr, disc) ==
    LET keys == DOMAIN Qt \cup {<<s, a>>}
                    \cup {<<next_state, actions[i]>> : i \in 1..Len(actions)}
        Q0 == [k \in keys |-> Get(Qt, k)]
        m == max_next_Q(Q0, next_state)
    IN  [Q0 EXCEPT ![<<s, a>>] =
            RAdd(@, RMul(lr, RSub(RAdd(reward, RMul(disc, m)), @)))]

\* QTableModel: the one-step TD update.
QUpdate(Qt, s, a, next_state, reward, lr, disc) ==
    LET Q0 == Ensure(Qt, <<s, a>>)
        m == max_next_Q(Q0, next_state)
    IN  [Q0 EXCEPT ![<<s, a>>] =
            RAdd(@, RMul(lr, RSub(RAdd(reward, RMul(disc, m)), @)))]

\* A slip: = instead of +=.
AccumulateLast(total, reward) == reward

\* cumulative_reward += reward
Accumulate(total, reward) == RAdd(total, reward)

\* A slip: a revisit resets the trace to 1.
TraceReset(et, key) ==
    [k \in DOMAIN et \cup {key} |-> IF k = key THEN R(1) ELSE et[k]]

\* A slip: the trace is created once, before the for loop, so an episode
\* starts with what the episode before left.
CarriedTrace == etrace

\* etrace = dict() at the start of every episode.
FreshTrace == EmptyMap

\* A slip: a pair that is new to the trace starts at 0.
TraceFromZero(et, key) ==
    IF key \in DOMAIN et THEN [et EXCEPT ![key] = RAdd(@, R(1))]
    ELSE [k \in DOMAIN et \cup {key} |-> IF k = key THEN R(0) ELSE et[k]]

\* QTableTraceModel: etrace[(state, action)] += 1, or = 1 on a KeyError.
TraceIncrement(et, key) ==
    IF key \in DOMAIN et THEN [et EXCEPT ![key] = RAdd(@, R(1))]
    ELSE [k \in DOMAIN et \cup {key} |-> IF k = key THEN R(1) ELSE et[k]]

\* The keys whose entry the trace update reads (line 99 for the chosen
\* pair, line 102 for every key of the trace) although the table has none:
\* each such read raises KeyError.
KeyErrors(Qt, et, key) == ({key} \cup DOMAIN et) \ DOMAIN Ensure(Qt, key)

\* A slip: the TD error is taken anew for every key, from that key's value.
QTraceUpdateDeltaPerKey(Qt, et, s, a, next_state, reward, lr, disc) ==
    LET Q0 == Ensure(Qt, <<s, a>>)
        m == max_next_Q(Q0, next_state)
    IN  [k \in DOMAIN Q0 \cup DOMAIN et |->
            IF k \in DOMAIN et
            THEN RAdd(Q0[k],
                      RMul(RMul(lr, RSub(RAdd(reward, RMul(disc, m)), Q0[k])),
                           et[k]))
            ELSE Q0[k]]

\* QTableTraceModel: delta once, then Q[key] += ... for every key of the
\* trace (Q0[k] has no value for a trace key that is missing from the table).
QTraceUpdate(Qt, et, s, a, next_state, reward, lr, disc) ==
    LET Q0 == Ensure(Qt, <<s, a>>)
        m == max_next_Q(Q0, next_state)
        delta == RSub(RAdd(reward, RMul(disc, m)), Q0[<<s, a>>])
    IN  [k \in DOMAIN Q0 \cup DOMAIN et |->
            IF k \in DOMAIN et
            THEN RAdd(Q0[k], RMul(RMul(lr, delta), et[k]))
            ELSE Q0[k]]

\* A slip: the trace decays by discount alone.
TraceDecayDiscountOnly(et, disc, lam) ==
    [k \in DOMAIN et |-> RMul(et[k], disc)]

\* QTableTraceModel: etrace[key] *= discount * eligibility_decay.
TraceDecay(et, disc, lam) ==
    [k \in DOMAIN et |-> RMul(et[k], RMul(disc, lam))]

\* A slip: the break is missing.
IsTerminalNever(st) == FALSE

\* A slip: only a win ends the episode.
IsTerminalWinOnly(st) == st = "WIN"

\* if status in (Status.WIN, Status.LOSE): break
IsTerminal(st) == st \in {"WIN", "LOSE"}

\* A slip: pop() instead of remove(start_cell).
RemoveLast(list, x) == SubSeq(list, 1, Len(list) - 1)

\* list.remove: drops the first occurrence.
Remove(list, x) ==
    LET i == CHOOSE j \in 1..Len(list) :
                 list[j] = x /\ \A h \in 1..(j - 1) : list[h] # x
    IN  [j \in 1..(Len(list) - 1) |-> IF j < i THEN list[j] ELSE list[j + 1]]

\* A slip: min instead of max.
ClampMin(n) == IF n < 1 THEN n ELSE 1

\* episodes = max(kwargs.get("episodes", 1000), 1)
Clamp(n) == IF n > 1 THEN n ELSE 1

\* A slip: range(1, episodes + 2).
MoreEpisodesOffByOne(ep, eps) == ep <= eps

\* for episode in range(1, episodes + 1): is there another iteration?
MoreEpisodes(ep, eps) == ep < eps

\* A slip: the convergence check runs after every episode.
IsCheckpointAlways(ep, every) == TRUE

\* if episode % check_convergence_every == 0
IsCheckpoint(ep, every) == ep % every = 0

\* A slip: the sample is appended after the break, so a won one is lost.
SampleDropsWon(wins, ep, win_rate) ==
    IF win_rate = 1 THEN wins ELSE Append(wins, <<ep, win_rate>>)

\* win_history.append((episode, win_rate))
Sample(wins, ep, win_rate) == Append(wins, <<ep, win_rate>>)

\* if w_all is True and stop_at_convergence is True: break
StopNow(w_all, stop) == w_all /\ stop

\* A slip: the decay is left out.
NotDecayed(rate, decay) == rate

\* exploration_rate *= exploration_decay
Decayed(rate, decay) == RMul(rate, decay)

\* ---------------------------------------------------------------- actions
Init ==
    /\ variant \in {"QTableModel", "QTableTraceModel"}
    /\ Q = EmptyMap
    /\ pc = "idle"
    /\ kw = NoCall
    /\ episodes = 0
    /\ episode = 0
    /\ exploration_rate = R(0)
    /\ start_list = <<>>
    /\ state = 0
    /\ etrace = EmptyMap
    /\ status = "PLAYING"
    /\ cumulative_reward = R(0)
    /\ cumulative_reward_history = <<>>
    /\ win_history = <<>>
    /\ ret = NoReturn
    /\ total_steps = 0
    /\ calls = 0
    /\ steps = 0
    /\ renders = 0
    /\ starts = <<>>
    /\ visited = <<>>
    /\ episode_rewards = <<>>
    /\ trace_used = EmptyMap
    /\ chosen = {}
    /\ last = NoStep
    /\ rng = NoDraws

\* train(stop_at_convergence, **kwargs) up to the first loop iteration, for
\* the arguments a caller may pass.
TrainWith(inputs) ==
    /\ pc = "idle"
    /\ \E k \in inputs :
        /\ total_steps + Clamp(k.episodes) <= MaxTotalSteps
        /\ calls < MaxCalls
        /\ kw' = k
        /\ episodes' = Clamp(k.episodes)
        /\ exploration_rate' = k.exploration_rate
    /\ episode' = 1
    /\ cumulative_reward' = R(0)
    /\ cumulative_reward_history' = <<>>
    /\ win_history' = <<>>
    /\ start_list' = <<>>
    /\ starts' = <<>>
    /\ state' = 0
    /\ etrace' = EmptyMap
    /\ status' = "PLAYING"
    /\ ret' = NoReturn
    /\ steps' = 0
    /\ renders' = 0
    /\ visited' = <<>>
    /\ episode_rewards' = <<>>
    /\ trace_used' = EmptyMap
    /\ last' = NoStep
    /\ pc' = "episode"
    /\ calls' = calls + 1
    /\ UNCHANGED <<variant, Q, total_steps, chosen>>

Train == TrainWith(TrainInputs)

\* train called with eligibility_decay = 0.
TrainNoTrace == TrainWith(NoTraceInputs)

\* The head of the for loop: draw a start cell, reset the environment.
BeginEpisode ==
    /\ pc = "episode"
    /\ LET pool == IF start_list = <<>> THEN empty ELSE start_list
       IN  \E i \in 1..Len(pool) :
            /\ start_list' = Remove(pool, pool[i])
            /\ state' = reset(pool[i])
            /\ starts' = Append(starts, pool[i])
    /\ etrace' = FreshTrace
    /\ steps' = 0
    /\ renders' = 0
    /\ visited' = <<>>
    /\ episode_rewards' = Append(episode_rewards, <<>>)
    /\ pc' = "step"
    /\ UNCHANGED <<variant, Q, kw, episodes, episode, exploration_rate, status,
                   cumulative_reward, cumulative_reward_history, win_history,
                   ret, total_steps, calls, trace_used, chosen, last>>

\* The agent has moves left while the steps the model allows exceed what the
\* episodes still to come need.
MovesLeft == total_steps + 2 + (episodes - episode) <= MaxTotalSteps

\* One iteration of the while loop.  A KeyError of the trace update leaves
\* train through the exception (pc = "raised"), with the table as found.
\* The environment ends every episode within the steps the model allows.
Step ==
    /\ pc = "step"
    /\ total_steps < MaxTotalSteps
    /\ \E action \in ChooseAction(Q, state, exploration_rate) :
       \E res \in StepResults(state, action, MovesLeft) :
        LET next_state == res[1]
            reward == res[2]
            st == res[3]
            key == <<state, action>>
            et == TraceIncrement(etrace, key)
        IN  /\ total_steps' = total_steps + 1
            /\ steps' = steps + 1
            /\ status' = st
            /\ visited' = Append(visited, key)
            /\ chosen' = chosen \cup {key}
            /\ last' = [valid |-> TRUE, Q |-> Q, state |-> state,
                        action |-> action, next_state |-> next_state,
                        reward |-> reward, status |-> st]
            /\ cumulative_reward' = Accumulate(cumulative_reward, reward)
            /\ episode_rewards' =
                    [episode_rewards EXCEPT ![episode] = Append(@, reward)]
            /\ IF variant = "QTableTraceModel"
               THEN /\ Q' = IF KeyErrors(Q, et, key) = {}
                            THEN QTraceUpdate(Q, et, state, action,
                                              next_state, reward,
                                              kw.learning_rate, kw.discount)
                            ELSE Q
                    /\ etrace' = TraceDecay(et, kw.discount,
                                            kw.eligibility_decay)
                    /\ trace_used' = et
               ELSE /\ Q' = QUpdate(Q, state, action, next_state, reward,
                                    kw.learning_rate, kw.discount)
                    /\ UNCHANGED <<etrace, trace_used>>
            /\ IF variant = "QTableTraceModel" /\ KeyErrors(Q, et, key) # {}
               THEN /\ pc' = "raised"
                    /\ UNCHANGED <<state, renders>>
               ELSE IF IsTerminal(st)
               THEN /\ pc' = "end"
                    /\ UNCHANGED <<state, renders>>
               ELSE /\ state' = next_state
                    /\ renders' = renders + 1
                    /\ pc' = "step"
    /\ UNCHANGED <<variant, kw, episodes, episode, exploration_rate,
                   start_list, cumulative_reward_history, win_history, ret,
                   calls, starts>>

\* The rest of the for loop body after the episode, and the return.
Return(history, wins) ==
    /\ ret' = [cumulative_reward_history |-> history, win_history |-> wins,
               episode |-> episode]
    /\ pc' = "idle"
    /\ UNCHANGED episode

Continue(history, wins) ==
    /\ exploration_rate' = Decayed(exploration_rate, kw.exploration_decay)
    /\ IF MoreEpisodes(episode, episodes)
       THEN /\ episode' = episode + 1
            /\ pc' = "episode"
            /\ UNCHANGED ret
       ELSE Return(history, wins)

EndEpisode ==
    /\ pc = "end"
    /\ LET history == Append(cumulative_reward_history, cumulative_reward)
       IN  /\ cumulative_reward_history' = history
           /\ IF IsCheckpoint(episode, kw.check_convergence_every)
              THEN \E cw \in CheckWinAllResults :
                    LET wins == Sample(win_history, episode, cw[2])
                    IN  /\ win_history' = wins
                        /\ IF StopNow(cw[1], kw.stop_at_convergence)
                           THEN /\ Return(history, wins)
                                /\ UNCHANGED exploration_rate
                           ELSE Continue(history, wins)
              ELSE /\ UNCHANGED win_history
                   /\ Continue(history, win_history)
    /\ UNCHANGED <<variant, Q, kw, episodes, start_list, state, etrace, status,
                   cumulative_reward, total_steps, calls, steps, renders,
                   starts, visited, episode_rewards, trace_used, chosen,
                   last>>

\* q(state), called from outside train: reads the table, changes nothing.
QCall ==
    /\ pc = "idle"
    /\ \E s \in States : Len(q(Q, s)) = Len(actions)
    /\ UNCHANGED vars

\* predict(state), called from outside train: random.choice raises on an
\* empty sequence; otherwise the call changes nothing.
PredictCall ==
    /\ pc = "idle"
    /\ \E s \in States : \E a \in predict(Q, s) : a \in Int
    /\ UNCHANGED vars

\* The program on its own: what its random sources draw is left open.
Next ==
    \/ Train /\ UNCHANGED rng
    \/ BeginEpisode /\ UNCHANGED rng
    \/ Step /\ UNCHANGED rng
    \/ EndEpisode /\ UNCHANGED rng
    \/ QCall
    \/ PredictCall

Spec == Init /\ [][Next]_vars

\* train is one synchronous call of a single thread: once called, it goes
\* on executing its loops.
Running == (BeginEpisode \/ Step \/ EndEpisode) /\ UNCHANGED rng

FairSpec == Spec /\ WF_vars(Running)

\* A QTableTraceModel whose train calls all pass eligibility_decay = 0.
InitNoTrace == Init /\ variant = "QTableTraceModel"

NextNoTrace ==
    \/ TrainNoTrace /\ UNCHANGED rng
    \/ BeginEpisode /\ UNCHANGED rng
    \/ Step /\ UNCHANGED rng
    \/ EndEpisode /\ UNCHANGED rng

SpecNoTrace == InitNoTrace /\ [][NextNoTrace]_vars

\* ------------------------------------------------- two runs from one seed
\* A run constructs a model and calls train once.  Two runs are taken side
\* by side: the program variables hold the run whose turn it is, rng.other
\* holds the other one.  The first run makes a step of train, drawing from
\* its random sources; the second run, with the sources seeded alike and
\* the same environment, then makes its own step with the same draws, and
\* with the same answer if it asks the environment the same.

\* np.random.random() draws from [0, 1).
Uniforms == {R(0), <<1, 4>>, <<3, 4>>}

\* What random.choice draws before it is reduced to an index.
Indexes == 0..1

\* random.choice(seq): the element the draw selects.
Pick(seq, c) == seq[(c % Len(seq)) + 1]

\* np.nonzero(q == np.max(q))[0]: the indices of the maximum, ascending.
Ties(Qt, s) ==
    LET qv == q(Qt, s)
        IsMax(j) == qv[j + 1] = RMax(qv)
    IN  SelectSeq([i \in 1..Len(qv) |-> i - 1], IsMax)

\* The epsilon-greedy choice for given draws: u is compared with the
\* exploration rate, c picks among all actions or among the ties.
ChooseActionBy(Qt, s, rate, u, c) ==
    IF RLt(u, rate) THEN Pick(actions, c) ELSE Pick(Ties(Qt, s), c)

\* The program variables of the run whose turn it is.
Program ==
    [Q |-> Q, pc |-> pc, kw |-> kw, episodes |-> episodes,
     episode |-> episode, exploration_rate |-> exploration_rate,
     start_list |-> start_list, state |-> state, etrace |-> etrace,
     status |-> status, cumulative_reward |-> cumulative_reward,
     cumulative_reward_history |-> cumulative_reward_history,
     win_history |-> win_history, ret |-> ret, total_steps |-> total_steps,
     calls |-> calls, steps |-> steps, renders |-> renders,
     starts |-> starts, visited |-> visited,
     episode_rewards |-> episode_rewards, trace_used |-> trace_used,
     chosen |-> chosen, last |-> last]

\* The first run has drawn e; the second run's draw of the same kind has
\* the same values, and the same answer to the same question.
SameSeed(e) ==
    (rng.run = 2 /\ rng.drawn.kind = e.kind) =>
        /\ e.u = rng.drawn.u
        /\ e.c = rng.drawn.c
        /\ (e.asked = rng.drawn.asked => e.answer = rng.drawn.answer)

\* The first run leaves its draw for the second, which uses it up.
Drawn(e) == [rng EXCEPT !.drawn = IF rng.run = 1 THEN e ELSE NoDraw]

\* It is the run's turn to make a step of train.
Turn == (rng.run = 1) = (rng.drawn = NoDraw)

\* train, once per model; the second run passes the first run's arguments.
SeededTrain ==
    /\ Turn
    /\ calls = 0
    /\ Train
    /\ rng.run = 2 => kw' = rng.other.kw
    /\ LET e == [kind |-> "train", u |-> R(0), c |-> 0,
                 asked |-> <<>>, answer |-> <<>>]
       IN  rng' = Drawn(e)

\* The head of the for loop, with random.choice(start_list) drawing c.
SeededBeginEpisode ==
    /\ Turn
    /\ BeginEpisode
    /\ \E c \in Indexes :
        LET pool == IF start_list = <<>> THEN empty ELSE start_list
            e == [kind |-> "start", u |-> R(0), c |-> c,
                  asked |-> <<>>, answer |-> <<>>]
        IN  /\ starts'[Len(starts')] = Pick(pool, c)
            /\ SameSeed(e)
            /\ rng' = Drawn(e)

\* One iteration of the while loop, with np.random.random() drawing u and
\* random.choice drawing c; environment.step is asked (state, action).
SeededStep ==
    /\ Turn
    /\ Step
    /\ \E u \in Uniforms : \E c \in Indexes :
        LET e == [kind |-> "step", u |-> u, c |-> c,
                  asked |-> <<state, last'.action, MovesLeft>>,
                  answer |-> <<last'.next_state, last'.reward, last'.status>>]
        IN  /\ last'.action = ChooseActionBy(Q, state, exploration_rate, u, c)
            /\ SameSeed(e)
            /\ rng' = Drawn(e)

\* The end of the for loop body; at a checkpoint check_win_all is asked
\* about the model, that is, about its table.
SeededEndEpisode ==
    /\ Turn
    /\ EndEpisode
    /\ LET check == IsCheckpoint(episode, kw.check_convergence_every)
           e == [kind |-> "end", u |-> R(0), c |-> 0,
                 asked |-> IF check THEN <<Q>> ELSE <<>>,
                 answer |-> IF check
                            THEN <<win_history'[Len(win_history')][2]>>
                            ELSE <<>>]
       IN  /\ SameSeed(e)
           /\ rng' = Drawn(e)

\* A slip: the table is a class attribute, one dict for all models.
SharedTable(own, current) == current

\* self.Q = dict(): every model has a table of its own.
OwnTable(own, current) == own

\* The turn passes to the other run: to the second when the first has
\* drawn, back to the first when the second has used the draw.
Swap ==
    /\ ~Turn
    /\ rng' = [rng EXCEPT !.run = 3 - @, !.other = Program]
    /\ Q' = OwnTable(rng.other.Q, Q)
    /\ pc' = rng.other.pc
    /\ kw' = rng.other.kw
    /\ episodes' = rng.other.episodes
    /\ episode' = rng.other.episode
    /\ exploration_rate' = rng.other.exploration_rate
    /\ start_list' = rng.other.start_list
    /\ state' = rng.other.state
    /\ etrace' = rng.other.etrace
    /\ status' = rng.other.status
    /\ cumulative_reward' = rng.other.cumulative_reward
    /\ cumulative_reward_history' = rng.other.cumulative_reward_history
    /\ win_history' = rng.other.win_history
    /\ ret' = rng.other.ret
    /\ total_steps' = rng.other.total_steps
    /\ calls' = rng.other.calls
    /\ steps' = rng.other.steps
    /\ renders' = rng.other.renders
    /\ starts' = rng.other.starts
    /\ visited' = rng.other.visited
    /\ episode_rewards' = rng.other.episode_rewards
    /\ trace_used' = rng.other.trace_used
    /\ chosen' = rng.other.chosen
    /\ last' = rng.other.last
    /\ UNCHANGED variant

NextSeeded ==
    \/ SeededTrain
    \/ SeededBeginEpisode
    \/ SeededStep
    \/ SeededEndEpisode
    \/ Swap

SpecSeeded == Init /\ [][NextSeeded]_vars

\* ------------------------------------------------------------------ claims
Max1(n) == IF n >= 1 THEN n ELSE 1

Returned == pc = "idle" /\ calls > 0

\* all start cells were reported won at the sample (episode, win_rate)
WonAll(sample) == sample[2] = 1

\* C1: a train call with stop_at_convergence = False plays exactly
\* max(episodes, 1) episodes and returns that number as episodes_run,
\* whatever check_win_all reported.
C1_PlaysClampedEpisodes ==
    (Returned /\ ~kw.stop_at_convergence) =>
        /\ ret.episode = Max1(kw.episodes)
        /\ Len(starts) = Max1(kw.episodes)
        /\ Len(ret.cumulative_reward_history) = Max1(kw.episodes)

C1_Witness ==
    /\ Returned
    /\ ~kw.stop_at_convergence
    /\ kw.episodes = 0
    /\ ret.episode = 1
    /\ Len(starts) = 1
    /\ ret.win_history = <<<<1, 1>>>>

\* C2: with stop_at_convergence = True no episode is played after a
\* checkpoint at which all start cells were reported won, and a call that
\* returns before its episodes are used up returns at such a checkpoint.
C2_StopsAtFirstWonCheckpoint ==
    (calls > 0 /\ kw.stop_at_convergence) =>
        /\ \A i \in 1..Len(win_history) :
            WonAll(win_history[i]) =>
                /\ Returned
                /\ i = Len(win_history)
                /\ ret.episode = win_history[i][1]
                /\ Len(starts) = win_history[i][1]
        /\ (Returned /\ ret.episode < Max1(kw.episodes)) =>
                /\ ret.episode % kw.check_convergence_every = 0
                /\ win_history # <<>>
                /\ win_history[Len(win_history)][1] = ret.episode
                /\ WonAll(win_history[Len(win_history)])

C2_Witness ==
    /\ Returned
    /\ kw.stop_at_convergence
    /\ kw.check_convergence_every = 2
    /\ kw.episodes = 3
    /\ ret.episode = 2
    /\ Len(starts) = 2

\* C3 as stated: the returned episodes_run is at most the requested episodes.
C3_Original == Returned => ret.episode <= kw.episodes

\* C3 as amended: the returned episodes_run is at least 1 and at most
\* max(requested episodes, 1).
C3_RunAtMostClamped ==
    Returned => (1 <= ret.episode /\ ret.episode <= Max1(kw.episodes))

C3_Witness ==
    /\ Returned
    /\ kw.stop_at_convergence
    /\ kw.episodes = 0
    /\ ret.episode = 1

\* C4: within one train call, the episodes k*N+1 .. (k+1)*N (N the number
\* of valid start cells) start from pairwise different cells, and a full
\* pass uses every valid start cell.
C4_PoolWithoutReplacement ==
    LET N == Len(empty)
        block(i) == (i - 1) \div N
    IN  /\ \A i, j \in 1..Len(starts) :
            (i < j /\ block(i) = block(j)) => starts[i] # starts[j]
        /\ \A i \in 1..Len(starts) :
            (i % N = 0) =>
                {starts[h] : h \in (i - N + 1)..i} =
                    {empty[h] : h \in 1..N}

C4_Witness ==
    /\ Len(starts) = 3
    /\ starts[1] # starts[2]
    /\ starts[3] = starts[2]
\* C5: a QTableModel step on (state, action) -> (next_state, reward,
\* status) sets Q[state, action] to old + learning_rate * (reward +
\* discount * m - old), with old the value before the step (0 if absent)
\* and m the largest pre-step value of next_state over all actions
\* (absent entries counting as 0), for every next_state and status.
C5_TDUpdate ==
    (last.valid /\ variant = "QTableModel") =>
        LET key == <<last.state, last.action>>
            Old(k) == IF k \in DOMAIN last.Q THEN last.Q[k] ELSE R(0)
            nextq == {Old(<<last.next_state, a>>) : a \in ActionSet}
        IN  \E m \in nextq :
                /\ \A v \in nextq : RLe(v, m)
                /\ key \in DOMAIN Q
                /\ Q[key] =
                    RAdd(Old(key),
                         RMul(kw.learning_rate,
                              RSub(RAdd(last.reward, RMul(kw.discount, m)),
                                   Old(key))))

C5_Witness ==
    /\ last.valid
    /\ variant = "QTableModel"
    /\ last.next_state = last.state
    /\ last.status \in {"WIN", "LOSE"}
    /\ <<last.state, last.action>> \in DOMAIN last.Q
    /\ last.Q[<<last.state, last.action>>] # R(0)
    /\ max_next_Q(last.Q, last.next_state) # R(0)

Revisit ==
    /\ variant = "QTableTraceModel"
    /\ Len(visited) = 3
    /\ visited[1] = visited[3]

\* C6 as stated: in an episode whose first three chosen pairs are (s0,a0),
\* (s1,a1), (s0,a0), the trace of (s0,a0) at the third step, after the
\* increment and before the decay, is 2.
C6_Original == Revisit => trace_used[visited[3]] = R(2)

\* C6 as amended: with c = discount * eligibility_decay that trace value is
\* 1 + c^2 when (s1,a1) differs from (s0,a0), and 1 + c + c^2 when all
\* three pairs are the same.
C6_RevisitAccumulatesDecayed ==
    Revisit =>
        LET c == RMul(kw.discount, kw.eligibility_decay)
        IN  trace_used[visited[3]] =
                IF visited[2] # visited[1]
                THEN RAdd(R(1), RMul(c, c))
                ELSE RAdd(R(1), RAdd(c, RMul(c, c)))

C6_Witness ==
    /\ Revisit
    /\ visited[2] # visited[1]
    /\ trace_used[visited[3]] = <<17, 16>>

\* the running or last train call was left by the convergence stop
StoppedEarly ==
    /\ Returned
    /\ kw.stop_at_convergence
    /\ win_history # <<>>
    /\ win_history[Len(win_history)] = <<ret.episode, 1>>

InitialTimesDecay(n) ==
    RMul(kw.exploration_rate, RPow(kw.exploration_decay, n))

C8_PredictArgmax ==
    \A s \in States :
        LET Val(a) == IF <<s, a>> \in DOMAIN Q THEN Q[<<s, a>>] ELSE R(0)
            best == {a \in ActionSet : \A b \in ActionSet : RLe(Val(b), Val(a))}
            results == predict(Q, s)
            qv == q(Q, s)
        IN  /\ results # {}
            /\ results = best
            /\ \A i \in 1..Len(actions) : qv[i] = Val(actions[i])
            /\ (\A a \in ActionSet : <<s, a>> \notin DOMAIN Q) =>
                    /\ results = ActionSet
                    /\ \A i \in 1..Len(actions) : qv[i] = R(0)

C8_Witness ==
    \E s, t \in States :
        /\ predict(Q, s) = {actions[2]}
        /\ <<s, actions[1]>> \in DOMAIN Q
        /\ \A a \in ActionSet : <<t, a>> \notin DOMAIN Q

\* C9: the keys of the table are exactly the pairs chosen at some training
\* step; no step of the program removes a key, and only the update step of
\* train changes the table, q and predict leaving it as it is.
C9_TableChangedOnlyByUpdate ==
    /\ DOMAIN Q = chosen
    /\ [][/\ DOMAIN Q' = chosen'
          /\ DOMAIN Q \subseteq DOMAIN Q'
          /\ (Q' # Q) => (pc = "step" /\ total_steps' = total_steps + 1)]_vars

C9_Witness ==
    /\ Returned
    /\ calls = 2
    /\ Cardinality(DOMAIN Q) >= 2
    /\ last.valid
    /\ \A a \in ActionSet : <<last.next_state, a>> \notin DOMAIN Q

\* C10: win_history holds exactly one sample for each played episode whose
\* index is a multiple of check_convergence_every, in increasing order, so
\* the returned one has floor(episodes_run / check_convergence_every)
\* entries, the sample that triggered an early stop included.
C10_WinHistorySamples ==
    (calls > 0) =>
        LET done == IF Returned THEN ret.episode ELSE episode - 1
        IN  /\ Len(win_history) = done \div kw.check_convergence_every
            /\ \A i \in 1..Len(win_history) :
                    win_history[i][1] = i * kw.check_convergence_every
            /\ Returned => ret.win_history = win_history

C10_Witness ==
    /\ StoppedEarly
    /\ ret.episode < Max1(kw.episodes)
    /\ Len(ret.win_history) = 2
    /\ ret.win_history[2] = <<2, 1>>

RECURSIVE RSum(_)
RSum(seq) == IF seq = <<>> THEN R(0) ELSE RAdd(seq[1], RSum(Tail(seq)))

\* the rewards of all steps of episodes 1..k of the running or last call
RECURSIVE TotalUpTo(_)
TotalUpTo(k) ==
    IF k = 0 THEN R(0) ELSE RAdd(TotalUpTo(k - 1), RSum(episode_rewards[k]))

\* C12: the reward history has one entry per finished episode of the call,
\* so the returned one has episodes_run entries (also after a convergence
\* stop), and its k-th entry is the sum of the rewards of all steps of
\* episodes 1..k of this call.
C12_HistoryIsRunningTotal ==
    (calls > 0) =>
        LET done == IF Returned THEN ret.episode ELSE episode - 1
        IN  /\ Len(cumulative_reward_history) = done
            /\ \A k \in 1..Len(cumulative_reward_history) :
                    cumulative_reward_history[k] = TotalUpTo(k)
            /\ Returned =>
                    ret.cumulative_reward_history = cumulative_reward_history

C12_Witness ==
    /\ StoppedEarly
    /\ ret.episode = 2
    /\ ret.episode < Max1(kw.episodes)
    /\ Len(ret.cumulative_reward_history) = 2
    /\ ret.cumulative_reward_history[2] # RSum(episode_rewards[2])
    /\ ret.cumulative_reward_history[1] # ret.cumulative_reward_history[2]

\* C13 as stated: render_q is invoked once for every environment step, so
\* when an episode has ended (its last step returned WIN or LOSE) the
\* number of render_q calls of the episode equals its number of step calls.
C13_RenderOncePerStep ==
    (pc = "end") => renders = steps

\* the TD error of the last step, from the table as it was before the step
LastDelta ==
    LET Old(k) == IF k \in DOMAIN last.Q THEN last.Q[k] ELSE R(0)
        nextq == {Old(<<last.next_state, a>>) : a \in ActionSet}
        m == CHOOSE v \in nextq : \A w \in nextq : RLe(w, v)
    IN  RSub(RAdd(last.reward, RMul(kw.discount, m)),
             Old(<<last.state, last.action>>))

\* C14: a QTableTraceModel step takes one TD error delta, from the values
\* the table had before the step, and adds learning_rate * delta *
\* etrace[key] to the entry of every key of the trace; every other entry
\* keeps its value, and the only key that can be new is the chosen pair.
C14_TraceUpdateOneDelta ==
    (last.valid /\ variant = "QTableTraceModel") =>
        /\ DOMAIN Q = DOMAIN last.Q \cup {<<last.state, last.action>>}
        /\ \A k \in DOMAIN Q :
            Q[k] =
                IF k \in DOMAIN trace_used
                THEN RAdd(IF k \in DOMAIN last.Q THEN last.Q[k] ELSE R(0),
                          RMul(RMul(kw.learning_rate, LastDelta),
                               trace_used[k]))
                ELSE last.Q[k]

C14_Witness ==
    /\ last.valid
    /\ variant = "QTableTraceModel"
    /\ Cardinality(DOMAIN trace_used) = 2
    /\ \E k \in DOMAIN trace_used :
        /\ k # <<last.state, last.action>>
        /\ Q[k] # last.Q[k]
        /\ last.Q[k] # Get(last.Q, <<last.state, last.action>>)
    /\ \E k \in DOMAIN Q : k \notin DOMAIN trace_used /\ Q[k] # R(0)

\* C15: in QTableTraceModel.train with discount * eligibility_decay >= 0,
\* when the updates of a step are applied the trace value of the chosen
\* pair is at least 1 and no trace value is negative, so the chosen pair's
\* entry moves by at least learning_rate * delta, in the direction of delta.
C15_ChosenTraceAtLeastOne ==
    (/\ last.valid
     /\ variant = "QTableTraceModel"
     /\ RLe(R(0), RMul(kw.discount, kw.eligibility_decay))) =>
        LET key == <<last.state, last.action>>
            full == RMul(kw.learning_rate, LastDelta)
            moved == RSub(Q[key], Get(last.Q, key))
        IN  /\ key \in DOMAIN trace_used
            /\ RLe(R(1), trace_used[key])
            /\ \A k \in DOMAIN trace_used : RLe(R(0), trace_used[k])
            /\ IF RLe(R(0), full) THEN RLe(full, moved) ELSE RLe(moved, full)

C15_Witness ==
    /\ Revisit
    /\ last.valid
    /\ RLt(R(1), trace_used[visited[3]])
    /\ RLt(R(0), trace_used[visited[2]])
    /\ RLt(trace_used[visited[2]], R(1))
    /\ LastDelta # R(0)
    /\ RSub(Q[visited[3]], last.Q[visited[3]]) # RMul(kw.learning_rate, LastDelta)

\* the pairs chosen so far in the running (or last) episode
VisitedSet == {visited[i] : i \in 1..Len(visited)}

\* C16: in QTableTraceModel.train the first step of every episode finds the
\* trace empty, the trace only ever holds pairs chosen in the running
\* episode, and a step changes the table only at pairs chosen in its
\* episode up to and including that step: every other entry, such as one
\* of a pair chosen only in earlier episodes, keeps its value.
C16_TraceScopedToEpisode ==
    (variant = "QTableTraceModel") =>
        /\ (pc = "step" /\ steps = 0) => etrace = EmptyMap
        /\ DOMAIN etrace \subseteq VisitedSet
        /\ (last.valid /\ visited # <<>>) =>
            /\ DOMAIN trace_used = VisitedSet
            /\ \A k \in DOMAIN Q \ VisitedSet :
                    k \in DOMAIN last.Q /\ Q[k] = last.Q[k]

C16_Witness ==
    /\ variant = "QTableTraceModel"
    /\ episode = 2
    /\ Len(visited) = 2
    /\ last.valid
    /\ LastDelta # R(0)
    /\ \E k \in DOMAIN Q \ VisitedSet : Q[k] # R(0)
    /\ Q[visited[1]] # last.Q[visited[1]]

\* C17: with eligibility_decay = 0 every QTableTraceModel step maps the
\* table it finds to the table the QTableModel update makes of it for the
\* same pair, next state, reward, discount and learning_rate; so, fed the
\* same start cells and actions, the two hold equal tables after every
\* step, also when a pair is chosen again in an episode.
C17_NoTraceIsPlain ==
    (/\ last.valid
     /\ variant = "QTableTraceModel"
     /\ kw.eligibility_decay = R(0)) =>
        Q = QUpdate(last.Q, last.state, last.action, last.next_state,
                    last.reward, kw.learning_rate, kw.discount)

C17_Witness ==
    /\ Revisit
    /\ visited[2] # visited[1]
    /\ last.valid
    /\ kw.eligibility_decay = R(0)
    /\ trace_used[visited[3]] = R(1)
    /\ trace_used[visited[2]] = R(0)
    /\ LastDelta # R(0)
    /\ Q[visited[2]] # R(0)

\* the table as the last step's update has to leave it
LastUpdated ==
    IF variant = "QTableTraceModel"
    THEN QTraceUpdate(last.Q, trace_used, last.state, last.action,
                      last.next_state, last.reward, kw.learning_rate,
                      kw.discount)
    ELSE QUpdate(last.Q, last.state, last.action, last.next_state,
                 last.reward, kw.learning_rate, kw.discount)

\* C18: in both models the loop is at its head again after a step exactly
\* when that step returned PLAYING, and then the state the next action is
\* chosen for is the next_state the step returned; an episode is over
\* exactly when its last step returned WIN or LOSE, with that step's update
\* applied to the table; and every step of an episode but the first is
\* keyed by the state the step before it led to.
C18_EpisodeEndsAtFirstTerminal ==
    /\ (pc = "step" /\ visited = <<>>) => state = reset(starts[Len(starts)])
    /\ (last.valid /\ visited # <<>>) =>
        /\ steps = Len(visited)
        /\ visited[Len(visited)] = <<last.state, last.action>>
        /\ status = last.status
        /\ Q = LastUpdated
        /\ (pc = "step") =>
                (last.status = "PLAYING" /\ state = last.next_state)
        /\ (pc # "step") => last.status \in {"WIN", "LOSE"}
        /\ visited[1][1] = reset(starts[Len(starts)])
        /\ \A i \in 1..(Len(visited) - 1) :
                visited[i + 1][1] = move(visited[i][1], visited[i][2])

C18_Witness ==
    /\ pc = "end"
    /\ last.valid
    /\ Len(visited) = 2
    /\ visited[1][1] # visited[2][1]
    /\ last.status = "WIN"
    /\ Q[visited[2]] # Get(last.Q, visited[2])

\* C20: in QTableTraceModel.train the trace update never reads a missing
\* table entry: train is never left by a KeyError, and whenever the update
\* loop runs every key of the trace is the chosen pair, whose entry was
\* just ensured, or a key the table already had, in every episode and
\* after earlier train calls on the same model.
C20_TraceKeysInTable ==
    /\ pc # "raised"
    /\ DOMAIN etrace \subseteq DOMAIN Q
    /\ (last.valid /\ variant = "QTableTraceModel") =>
        /\ DOMAIN trace_used \subseteq
                DOMAIN last.Q \cup {<<last.state, last.action>>}
        /\ DOMAIN trace_used \subseteq DOMAIN Q

C20_Witness ==
    /\ variant = "QTableTraceModel"
    /\ calls = 2
    /\ last.valid
    /\ Cardinality(DOMAIN trace_used) = 2
    /\ DOMAIN last.Q # {}
    /\ <<last.state, last.action>> \notin DOMAIN last.Q
    /\ DOMAIN last.Q \ DOMAIN trace_used # {}

\* C19: with an environment that ends every episode and
\* check_convergence_every >= 1, every train call that was made, with
\* either value of stop_at_convergence, eventually returns, having played
\* at most max(episodes, 1) episodes.
C19_TrainReturns ==
    (pc # "idle") ~>
        (/\ Returned
         /\ ret.episode <= Max1(kw.episodes)
         /\ Len(starts) = ret.episode)

C19_Witness ==
    /\ Returned
    /\ calls = 1
    /\ kw.stop_at_convergence
    /\ kw.episodes = 3
    /\ kw.check_convergence_every = 2
    /\ ret.episode = 3
    /\ ret.win_history = <<<<2, 0>>>>


\* C11: when the first of two runs has returned and the second, a newly
\* constructed model of its own whose train was called with the same
\* arguments, has made its step with the same draws and the same
\* environment, the second has returned too, with the first run's reward
\* history and win-rate history.
C11_SameSeedSameHistories ==
    (rng.run = 2 /\ rng.drawn = NoDraw /\ rng.other.pc = "idle") =>
        /\ Returned
        /\ ret.cumulative_reward_history = rng.other.ret.cumulative_reward_history
        /\ ret.win_history = rng.other.ret.win_history

C11_Witness ==
    /\ rng.run = 2
    /\ rng.drawn = NoDraw
    /\ rng.other.pc = "idle"
    /\ Returned
    /\ Len(ret.cumulative_reward_history) = 2
    /\ ret.cumulative_reward_history[1] # ret.cumulative_reward_history[2]
    /\ ret.win_history # <<>>
    /\ Len(Ties(last.Q, last.state)) = 1

====
